---------------------------- MODULE Spec2Model ----------------------------
(***************************************************************************)
(* A model of the podcast summariser: the video-id extraction and the      *)
(* command parser (regular expressions over character sequences), the      *)
(* transcript fallback chain, the transcript truncation, the orchestrator  *)
(* run() and the HTTP handler handle_command with the process-wide         *)
(* credential OPENROUTER_API_KEY.                                          *)
(*                                                                         *)
(* A Python str is a sequence of one-character strings.  An Optional       *)
(* value is a record [ok, val]: None is [ok |-> FALSE, val |-> <<>>].      *)
(***************************************************************************)
EXTENDS Integers, Sequences, FiniteSets, TLC

VARIABLES
    \* ---- extraction: _extract_video_id and extract_url as pure functions
    input,      \* the string handed to the function
    command,    \* request.command.strip()
    url,        \* Optional: what extract_url returned
    video_id,   \* Optional: what _extract_video_id returned
    xpc,        \* "start" | "extracted" | "parsed" | "chained"
    \* ---- the transcript service and _get_transcript
    world,      \* what the transcript service answers
    tr,         \* what _get_transcript returned, and the calls it made
    tpc,        \* "start" | "returned"
    \* ---- _generate_summary
    given,      \* the transcript handed to it
    summary,    \* what it returned, the prompt it built, the calls it made
    spc,        \* "start" | "returned"
    \* ---- the HTTP service
    environ,    \* os.environ["OPENROUTER_API_KEY"]
    startup,    \* its value when the process started
    lastOverride, \* history: the last non-empty override header handled
    tasks       \* the handle_command executions, one per request slot

xvars == <<input, command, url, video_id, xpc>>

tvars == <<world, tr, tpc>>

svars == <<given, summary, spc>>

hvars == <<environ, startup, lastOverride, tasks>>

vars == <<xvars, tvars, svars, hvars>>

-----------------------------------------------------------------------------
(* Optional values *)

None == [ok |-> FALSE, val |-> <<>>]

Some(v) == [ok |-> TRUE, val |-> v]

-----------------------------------------------------------------------------
(* Characters and strings *)

\* [a-zA-Z0-9_-]
IdChars ==
    {"a","b","c","d","e","f","g","h","i","j","k","l","m",
     "n","o","p","q","r","s","t","u","v","w","x","y","z",
     "A","B","C","D","E","F","G","H","I","J","K","L","M",
     "N","O","P","Q","R","S","T","U","V","W","X","Y","Z",
     "0","1","2","3","4","5","6","7","8","9","_","-"}

\* \s, and what str.strip() removes, among the characters of the model
Whitespace == {" ", "\t", "\n", "\r", "\f"}

\* the {11} of the three identifier patterns
IdLen == 11

Min(S) == CHOOSE x \in S : \A y \in S : x <= y

\* s[i:] starts with p   (i is 1-based)
HasPrefixAt(s, i, p) ==
    /\ i >= 1
    /\ i + Len(p) - 1 <= Len(s)
    /\ \A k \in 1..Len(p) : s[i + k - 1] = p[k]

\* the n characters s[i], ..., s[i+n-1] exist and are identifier characters
IdRunAt(s, i, n) ==
    /\ i >= 1
    /\ i + n - 1 <= Len(s)
    /\ \A k \in 0..(n - 1) : s[i + k] \in IdChars

\* the end of the longest run of characters of C starting at s[i] (i - 1: none)
RunEndIn(s, i, C) ==
    LET stops == {j \in i..Len(s) : s[j] \notin C}
    IN  IF stops = {} THEN Len(s) ELSE Min(stops) - 1

\* the end of the longest run of characters outside C starting at s[i]
RunEndNotIn(s, i, C) ==
    LET stops == {j \in i..Len(s) : s[j] \in C}
    IN  IF stops = {} THEN Len(s) ELSE Min(stops) - 1

\* str.strip()
Strip(s) ==
    LET keep == {k \in 1..Len(s) : s[k] \notin Whitespace}
    IN  IF keep = {} THEN <<>>
        ELSE SubSeq(s, Min(keep), CHOOSE k \in keep : \A j \in keep : j <= k)

\* s with every character of C removed
RECURSIVE Without(_, _)
Without(s, C) ==
    IF s = <<>> THEN <<>>
    ELSE IF Head(s) \in C THEN Without(Tail(s), C)
    ELSE <<Head(s)>> \o Without(Tail(s), C)

\* s with every character a replaced by b
Replace(s, a, b) == [k \in 1..Len(s) |-> IF s[k] = a THEN b ELSE s[k]]

\* the first index of character c in s, or Len(s) + 1
Find(s, c) ==
    LET at == {k \in 1..Len(s) : s[k] = c}
    IN  IF at = {} THEN Len(s) + 1 ELSE Min(at)

\* s.split(c): the pieces of s between the occurrences of c
RECURSIVE Split(_, _)
Split(s, c) ==
    LET k == Find(s, c)
    IN  IF k > Len(s) THEN <<s>>
        ELSE <<SubSeq(s, 1, k - 1)>> \o Split(SubSeq(s, k + 1, Len(s)), c)

-----------------------------------------------------------------------------
(* PodcastSummariser._extract_video_id *)

\* (?:v=|/v/|youtu\.be/)
IdPrefixes ==
    { <<"v","=">>, <<"/","v","/">>, <<"y","o","u","t","u",".","b","e","/">> }

\* (?:embed/)
EmbedPrefixes == { <<"e","m","b","e","d","/">> }

\* the pattern  (?:p1|p2|...)([a-zA-Z0-9_-]{11})  matches at position i
PrefixedIdAt(s, i, prefixes) ==
    \E p \in prefixes : HasPrefixAt(s, i, p) /\ IdRunAt(s, i + Len(p), IdLen)

\* re.search: the leftmost position where the pattern matches, or 0
SearchPrefixedId(s, prefixes) ==
    LET hits == {i \in 1..Len(s) : PrefixedIdAt(s, i, prefixes)}
    IN  IF hits = {} THEN 0 ELSE Min(hits)

\* match.group(1) of a match at position i
PrefixedIdGroup(s, i, prefixes) ==
    LET p == CHOOSE q \in prefixes :
                 HasPrefixAt(s, i, q) /\ IdRunAt(s, i + Len(q), IdLen)
    IN  SubSeq(s, i + Len(p), i + Len(p) + IdLen - 1)

\* ^([a-zA-Z0-9_-]{11})$  without re.MULTILINE: $ matches at the end of the
\* string and also just before a newline that ends the string
BareIdMatches(s) ==
    /\ IdRunAt(s, 1, IdLen)
    /\ \/ Len(s) = IdLen
       \/ Len(s) = IdLen + 1 /\ s[IdLen + 1] = "\n"

\* urlparse(url).query: urlsplit strips leading spaces and control characters,
\* removes tab, CR and LF, cuts the fragment at the first '#' and then the
\* query at the first '?'.  (The scheme and the netloc hold neither '?' nor
\* '#'; the model's characters hold no '[' or ']', so urlsplit does not raise.)
UrlQuery(s) ==
    LET lead   == RunEndIn(s, 1, Whitespace)
        u      == Without(SubSeq(s, lead + 1, Len(s)), {"\t", "\r", "\n"})
        nofrag == SubSeq(u, 1, Find(u, "#") - 1)
    IN  SubSeq(nofrag, Find(nofrag, "?") + 1, Len(nofrag))

\* parse_qs(query) as the list of (name, value) pairs in order: split on '&',
\* a piece without '=' or with an empty value is dropped, '+' becomes a space
\* (the model's characters hold no '%', so unquote changes nothing else)
RECURSIVE QueryPairs(_)
QueryPairs(pieces) ==
    IF pieces = <<>> THEN <<>>
    ELSE LET nv == Head(pieces)
             eq == Find(nv, "=")
             value == SubSeq(nv, eq + 1, Len(nv))
         IN  IF eq > Len(nv) \/ value = <<>>
             THEN QueryPairs(Tail(pieces))
             ELSE << [name  |-> Replace(SubSeq(nv, 1, eq - 1), "+", " "),
                      value |-> Replace(value, "+", " ")] >>
                  \o QueryPairs(Tail(pieces))

parse_qs(query) == QueryPairs(Split(query, "&"))

\* lines 76-85: params['v'][0] when the query string has a parameter v
QueryFallback(s) ==
    LET query == UrlQuery(s)
        pairs == parse_qs(query)
        vs    == {k \in 1..Len(pairs) : pairs[k].name = <<"v">>}
    IN  IF query # <<>> /\ vs # {} THEN Some(pairs[Min(vs)].value) ELSE None

\* lines 61-85
extract_video_id(s) ==
    LET m1 == SearchPrefixedId(s, IdPrefixes)
        m2 == SearchPrefixedId(s, EmbedPrefixes)
    IN  IF m1 # 0 THEN Some(PrefixedIdGroup(s, m1, IdPrefixes))
        ELSE IF m2 # 0 THEN Some(PrefixedIdGroup(s, m2, EmbedPrefixes))
        ELSE IF BareIdMatches(s) THEN Some(SubSeq(s, 1, IdLen))
        ELSE QueryFallback(s)

-----------------------------------------------------------------------------
(* extract_url (deploy/app.py) *)

Http  == <<"h","t","t","p",":","/","/">>
Https == <<"h","t","t","p","s",":","/","/">>
Www   == <<"w","w","w",".">>
WatchHead == <<"y","o","u","t","u","b","e",".","c","o","m","/","w","a","t","c","h","?","v","=">>
ShortHead == <<"y","o","u","t","u",".","b","e","/">>
EmbedHead == <<"y","o","u","t","u","b","e",".","c","o","m","/","e","m","b","e","d","/">>
CanonicalWatch == <<"h","t","t","p","s",":","/","/","y","o","u","t","u","b","e",".","c","o","m","/","w","a","t","c","h","?","v","=">>

\* https?://(?:www\.)?youtube\.com/watch\?v=
WatchHeads == {sch \o w \o WatchHead : sch \in {Http, Https}, w \in {Www, <<>>}}

\* https?://youtu\.be/
ShortHeads == {sch \o ShortHead : sch \in {Http, Https}}

\* https?://(?:www\.)?youtube\.com/embed/
EmbedHeads == {sch \o w \o EmbedHead : sch \in {Http, Https}, w \in {Www, <<>>}}

\* the pattern  head[a-zA-Z0-9_-]+  matches at position i
UrlAt(s, i, heads) ==
    \E h \in heads : HasPrefixAt(s, i, h) /\ IdRunAt(s, i + Len(h), 1)

SearchUrl(s, heads) ==
    LET hits == {i \in 1..Len(s) : UrlAt(s, i, heads)}
    IN  IF hits = {} THEN 0 ELSE Min(hits)

\* match.group(1) of  (head[a-zA-Z0-9_-]+)  or, with tail, of
\* (head[a-zA-Z0-9_-]+(?:&[^\s]*)?)  at position i: both repetitions are greedy
UrlGroup(s, i, heads, tail) ==
    LET h    == CHOOSE q \in heads : HasPrefixAt(s, i, q) /\ IdRunAt(s, i + Len(q), 1)
        idE  == RunEndIn(s, i + Len(h), IdChars)
        last == IF tail /\ idE + 1 <= Len(s) /\ s[idE + 1] = "&"
                THEN RunEndNotIn(s, idE + 2, Whitespace)
                ELSE idE
    IN  SubSeq(s, i, last)

\* lines 87-107
extract_url(text) ==
    LET m1 == SearchUrl(text, WatchHeads)
        m2 == SearchUrl(text, ShortHeads)
        m3 == SearchUrl(text, EmbedHeads)
    IN  IF m1 # 0 THEN Some(UrlGroup(text, m1, WatchHeads, TRUE))
        ELSE IF m2 # 0 THEN Some(UrlGroup(text, m2, ShortHeads, FALSE))
        ELSE IF m3 # 0 THEN Some(UrlGroup(text, m3, EmbedHeads, FALSE))
        ELSE IF BareIdMatches(text) THEN Some(CanonicalWatch \o text)
        ELSE None

-----------------------------------------------------------------------------
(* The extraction functions on bounded inputs.  An input is the              *)
(* concatenation of at most MaxSegs segments: URL heads, the id prefixes,    *)
(* identifiers of 11 and of 3 characters (two or more in a row make longer   *)
(* tokens), separators, whitespace and a plain word.                         *)

MaxSegs == 3

Segments ==
    { <<"h","t","t","p","s",":","/","/","w","w","w",".","y","o","u","t","u","b","e",".","c","o","m","/","w","a","t","c","h","?">>,
      <<"h","t","t","p","s",":","/","/","y","o","u","t","u",".","b","e","/">>,
      <<"h","t","t","p",":","/","/","y","o","u","t","u","b","e",".","c","o","m","/","e","m","b","e","d","/">>,
      <<"v","=">>,
      <<"/","v","/">>,
      <<"&">>,
      <<"d","Q","w","4","w","9","W","g","X","c","Q">>,
      <<"a","b","c","1","2","3","4","5","6","7","8">>,
      <<"a","b","c">>,
      <<" ">>,
      <<"\n">>,
      <<"#">>,
      <<"s","u","m","m","a","r","i","z","e">> }

RECURSIVE Flatten(_)
Flatten(q) == IF q = <<>> THEN <<>> ELSE Head(q) \o Flatten(Tail(q))

Inputs == {Flatten(q) : q \in UNION {[1..n -> Segments] : n \in 0..MaxSegs}}

\* run(), lines 43-45 (and the CLI, line 172): the raw argument is parsed
ExtractVideoId ==
    /\ xpc = "start"
    /\ video_id' = extract_video_id(input)
    /\ xpc' = "extracted"
    /\ UNCHANGED <<input, command, url>>
    /\ UNCHANGED <<tvars, svars, hvars>>

\* handle_command, lines 57-63: strip the command, look for a URL in it
ParseCommand ==
    /\ xpc = "start"
    /\ command' = Strip(input)
    /\ url' = extract_url(Strip(input))
    /\ xpc' = "parsed"
    /\ UNCHANGED <<input, video_id>>
    /\ UNCHANGED <<tvars, svars, hvars>>

\* handle_command line 73 into run() line 43: the URL found is parsed
ExtractVideoIdOfUrl ==
    /\ xpc = "parsed"
    /\ url.ok
    /\ video_id' = extract_video_id(url.val)
    /\ xpc' = "chained"
    /\ UNCHANGED <<input, command, url>>
    /\ UNCHANGED <<tvars, svars, hvars>>

-----------------------------------------------------------------------------
(* Transcript text.  A transcript can be longer than 100,000 characters, so  *)
(* a transcript string is kept run-length encoded: a sequence of runs        *)
(* [ch, n] (n >= 1 copies of the character ch, written Rep(ch, n)) in which neighbouring runs    *)
(* hold different characters.  Two strings are equal exactly when their      *)
(* encodings are.                                                            *)

Rep(c, k) == [ch |-> c, n |-> k]

\* len(t)
RECURSIVE TextLen(_)
TextLen(t) == IF t = <<>> THEN 0 ELSE Head(t).n + TextLen(Tail(t))

\* a + b
TextCat(a, b) ==
    IF a = <<>> THEN b
    ELSE IF b = <<>> THEN a
    ELSE IF a[Len(a)].ch = b[1].ch
         THEN SubSeq(a, 1, Len(a) - 1)
              \o <<Rep(b[1].ch, a[Len(a)].n + b[1].n)>>
              \o Tail(b)
         ELSE a \o b

\* t[:k]
RECURSIVE TextTake(_, _)
TextTake(t, k) ==
    IF t = <<>> \/ k <= 0 THEN <<>>
    ELSE IF Head(t).n >= k THEN <<Rep(Head(t).ch, k)>>
    ELSE <<Head(t)>> \o TextTake(Tail(t), k - Head(t).n)

\* t[k:]
RECURSIVE TextDrop(_, _)
TextDrop(t, k) ==
    IF t = <<>> \/ k <= 0 THEN t
    ELSE IF Head(t).n > k THEN <<Rep(Head(t).ch, Head(t).n - k)>> \o Tail(t)
    ELSE TextDrop(Tail(t), k - Head(t).n)

\* the encoding of a string given character by character
RECURSIVE TextOf(_)
TextOf(s) == IF s = <<>> THEN <<>> ELSE TextCat(<<Rep(Head(s), 1)>>, TextOf(Tail(s)))

\* sep.join(parts)
RECURSIVE TextJoin(_, _)
TextJoin(sep, parts) ==
    IF parts = <<>> THEN <<>>
    ELSE IF Len(parts) = 1 THEN parts[1]
    ELSE TextCat(TextCat(parts[1], sep), TextJoin(sep, Tail(parts)))

-----------------------------------------------------------------------------
(* PodcastSummariser._get_transcript and the transcript service it calls.    *)
(* A track is [lang, generated].  The service's answers are the world w:     *)
(*   w.listOk  whether list_transcripts returns (FALSE: it raises)           *)
(*   w.tracks  the tracks the listing holds                                  *)
(*   w.fetch   what fetch() of a track does: "raise", or the form of the     *)
(*             entries it returns ("empty", "words", "long")                 *)
(*   w.direct  the same for get_transcript(video_id), the default track      *)

max_chars == 100000

Track(l, g) == [lang |-> l, generated |-> g]

NoTrack == [ok |-> FALSE, val |-> Track("", FALSE)]

Tracks ==
    {Track(l, g) : l \in {"en", "en-US", "en-GB"}, g \in BOOLEAN}
        \cup {Track("de", FALSE)}

LangText(l) ==
    CASE l = "en"    -> TextOf(<<"e","n">>)
      [] l = "en-US" -> TextOf(<<"e","n","-","U","S">>)
      [] l = "en-GB" -> TextOf(<<"e","n","-","G","B">>)
      [] OTHER       -> TextOf(<<"d","e">>)

KindText(g) ==
    IF g THEN TextOf(<<"a","u","t","o">>) ELSE TextOf(<<"m","a","n","u","a","l">>)

\* the entries' text fields that fetch() of track tr returns: every track has
\* its own text, so the text returned tells which track was fetched
EntriesOf(trk, form) ==
    CASE form = "empty" -> <<>>
      [] form = "words" -> <<LangText(trk.lang), KindText(trk.generated)>>
      [] OTHER          -> <<<<Rep("a", max_chars)>>, LangText(trk.lang)>>

\* the entries' text fields of the default track
DefaultEntries(form) ==
    CASE form = "empty" -> <<>>
      [] OTHER          -> <<TextOf(<<"d","e","f","a","u","l","t">>), TextOf(<<"t","r","a","c","k">>)>>

\* TranscriptList.find_manually_created_transcript / find_generated_transcript:
\* the track of the first language code that has one of that kind, else raise
RECURSIVE FindOfKind(_, _, _)
FindOfKind(tracks, g, codes) ==
    IF codes = <<>> THEN NoTrack
    ELSE IF Track(Head(codes), g) \in tracks THEN Some(Track(Head(codes), g))
    ELSE FindOfKind(tracks, g, Tail(codes))

\* TranscriptList.find_transcript: per language code, manual before generated
RECURSIVE FindAny(_, _)
FindAny(tracks, codes) ==
    IF codes = <<>> THEN NoTrack
    ELSE IF Track(Head(codes), FALSE) \in tracks THEN Some(Track(Head(codes), FALSE))
    ELSE IF Track(Head(codes), TRUE) \in tracks THEN Some(Track(Head(codes), TRUE))
    ELSE FindAny(tracks, Tail(codes))

\* lines 94-102, with the generated lookup tried first
SelectTrackGeneratedFirst(tracks) ==
    LET manual == FindOfKind(tracks, FALSE, <<"en">>)
        gen    == FindOfKind(tracks, TRUE, <<"en">>)
        any    == FindAny(tracks, <<"en", "en-US", "en-GB">>)
    IN  IF gen.ok
        THEN [track |-> gen, lookups |-> <<"find_generated_transcript">>]
        ELSE IF manual.ok
        THEN [track |-> manual,
              lookups |-> <<"find_generated_transcript",
                            "find_manually_created_transcript">>]
        ELSE [track |-> any,
              lookups |-> <<"find_generated_transcript",
                            "find_manually_created_transcript",
                            "find_transcript">>]

\* lines 94-102: the nested try blocks; track is absent when the last lookup
\* raised too (the exception then leaves the outer try)
SelectTrack(tracks) ==
    LET manual == FindOfKind(tracks, FALSE, <<"en">>)
        gen    == FindOfKind(tracks, TRUE, <<"en">>)
        any    == FindAny(tracks, <<"en", "en-US", "en-GB">>)
    IN  IF manual.ok
        THEN [track |-> manual, lookups |-> <<"find_manually_created_transcript">>]
        ELSE IF gen.ok
        THEN [track |-> gen,
              lookups |-> <<"find_manually_created_transcript",
                            "find_generated_transcript">>]
        ELSE [track |-> any,
              lookups |-> <<"find_manually_created_transcript",
                            "find_generated_transcript",
                            "find_transcript">>]

\* the except clause taken only when the listing raised
OuterTryRaisedOnListingOnly(w) == ~w.listOk

\* lines 89-109: whether an exception reaches the outer except clause: the
\* listing, the last lookup or the fetch of the selected track raised
OuterTryRaised(w) ==
    \/ ~w.listOk
    \/ ~SelectTrack(w.tracks).track.ok
    \/ w.fetch = "raise"

\* lines 87-118: the result, the calls made to the service in order, and the
\* track whose fetch() was called
get_transcript(w) ==
    LET sel     == SelectTrack(w.tracks)
        fetches == w.listOk /\ sel.track.ok
        body    == <<"list_transcripts">>
                   \o (IF w.listOk THEN sel.lookups ELSE <<>>)
                   \o (IF fetches THEN <<"fetch">> ELSE <<>>)
    IN  IF ~OuterTryRaised(w)
        THEN [result   |-> Some(TextJoin(<<Rep(" ", 1)>>,
                                         EntriesOf(sel.track.val, w.fetch))),
              calls    |-> body,
              selected |-> sel.track]
        ELSE [result   |-> IF w.direct = "raise" THEN None
                           ELSE Some(TextJoin(<<Rep(" ", 1)>>,
                                              DefaultEntries(w.direct))),
              calls    |-> body \o <<"get_transcript">>,
              selected |-> IF fetches THEN sel.track ELSE NoTrack]

TranscriptWorlds ==
    [listOk : BOOLEAN,
     tracks : SUBSET Tracks,
     fetch  : {"raise", "empty", "words", "long"},
     direct : {"raise", "empty", "words"}]

NoWorld == [listOk |-> FALSE, tracks |-> {}, fetch |-> "raise", direct |-> "raise"]

NoTranscript == [result |-> None, calls |-> <<>>, selected |-> NoTrack]

\* one call of _get_transcript against the world
GetTranscript ==
    /\ tpc = "start"
    /\ tr' = get_transcript(world)
    /\ tpc' = "returned"
    /\ UNCHANGED world
    /\ UNCHANGED <<xvars, svars, hvars>>

-----------------------------------------------------------------------------
(* PodcastSummariser._generate_summary and the completion service.  What the *)
(* service does with one call is c = [kind, text]: it returns a completion   *)
(* whose content is text ("text"), it returns one whose content is None      *)
(* ("null"), or the call raises an exception whose str() is text ("raise").  *)

NoPrompt == [url |-> <<>>, transcript |-> <<>>]

\* "\n\n[Transcript truncated...]"
TruncationMarker ==
    TextOf(<<"\n","\n","[","T","r","a","n","s","c","r","i","p","t"," ","t","r","u","n","c","a","t","e","d",".",".",".","]">>)

\* "Error generating summary: "
ErrGeneratingPrefix ==
    <<"E","r","r","o","r"," ","g","e","n","e","r","a","t","i","n","g"," ","s","u","m","m","a","r","y",":"," ">>

\* lines 123-125 with >= for >
TruncateAtLimit(transcript) ==
    IF TextLen(transcript) >= max_chars
    THEN TextCat(TextTake(transcript, max_chars), TruncationMarker)
    ELSE transcript

\* lines 123-125
Truncate(transcript) ==
    IF TextLen(transcript) > max_chars
    THEN TextCat(TextTake(transcript, max_chars), TruncationMarker)
    ELSE transcript

\* lines 120-158.  prompt holds the two values placed in the user prompt (the
\* fixed text around them and the system prompt are constants); result is the
\* returned value, None when the completion's content is None
generate_summary(transcript, u, c) ==
    [prompt |-> [url |-> u, transcript |-> Truncate(transcript)],
     result |-> CASE c.kind = "text"  -> Some(c.text)
                  [] c.kind = "raise" -> Some(ErrGeneratingPrefix \o c.text)
                  [] OTHER            -> None,
     calls  |-> <<"chat.completions.create">>]

\* what the completion service may answer
Completions ==
    { [kind |-> "text",
       text |-> <<"*","*","T","i","t","l","e"," ","&"," ","O","v","e","r","v","i","e","w","*","*">>],
      [kind |-> "text",
       text |-> <<"E","r","r","o","r",":"," ","t","h","e"," ","t","r","a","n","s","c","r","i","p","t"," ","i","s"," ","e","m","p","t","y">>],
      [kind |-> "raise",
       text |-> <<"C","o","n","n","e","c","t","i","o","n"," ","e","r","r","o","r",".">>],
      [kind |-> "null", text |-> <<>>] }

-----------------------------------------------------------------------------
(* _generate_summary on transcripts around the limit: a transcript is at     *)
(* most MaxRuns runs of a, b or newline whose lengths are near max_chars.    *)

MaxRuns == 2

RunLens == {1, 2, max_chars - 1, max_chars, max_chars + 1}

Canonical(t) == \A k \in 1..(Len(t) - 1) : t[k].ch # t[k + 1].ch

Transcripts ==
    {t \in UNION {[1..n -> {Rep(c, k) : c \in {"a", "b", "\n"}, k \in RunLens}]
                     : n \in 0..MaxRuns} : Canonical(t)}

SampleUrl == Https \o ShortHead \o <<"d","Q","w","4","w","9","W","g","X","c","Q">>

NoSummary == [prompt |-> NoPrompt, result |-> None, calls |-> <<>>]

\* one call of _generate_summary; the service answers one of Completions
GenerateSummary ==
    /\ spc = "start"
    /\ \E c \in Completions : summary' = generate_summary(given, SampleUrl, c)
    /\ spc' = "returned"
    /\ UNCHANGED given
    /\ UNCHANGED <<xvars, tvars, hvars>>

-----------------------------------------------------------------------------
(* PodcastSummariser.run *)

\* "Error: Could not extract video ID from URL"
ErrExtract ==
    <<"E","r","r","o","r",":"," ","C","o","u","l","d"," ","n","o","t"," ","e","x","t","r","a","c","t"," ","v","i","d","e","o"," ","I","D"," ","f","r","o","m"," ","U","R","L">>

\* "Error: Could not fetch transcript for this video"
ErrFetch ==
    <<"E","r","r","o","r",":"," ","C","o","u","l","d"," ","n","o","t"," ","f","e","t","c","h"," ","t","r","a","n","s","c","r","i","p","t"," ","f","o","r"," ","t","h","i","s"," ","v","i","d","e","o">>

\* line 51 with "is None" for "not": an empty transcript goes on to the summary
TranscriptMissingNoneOnly(t) == ~t.ok

\* line 51: not transcript
TranscriptMissing(t) == ~t.ok \/ t.val = <<>>

\* lines 30-59: the returned value, the stages entered and the calls made to
\* the two services in order, and the prompt sent
run(podcast_url, w) ==
    LET id == extract_video_id(podcast_url)
        t  == get_transcript(w)
        g  == generate_summary(t.result.val, podcast_url, w.completion)
    IN  IF ~id.ok \/ id.val = <<>>
        THEN [result |-> Some(ErrExtract),
              calls  |-> <<"_extract_video_id">>,
              prompt |-> NoPrompt]
        ELSE IF TranscriptMissing(t.result)
        THEN [result |-> Some(ErrFetch),
              calls  |-> <<"_extract_video_id", "_get_transcript">> \o t.calls,
              prompt |-> NoPrompt]
        ELSE [result |-> g.result,
              calls  |-> <<"_extract_video_id", "_get_transcript">> \o t.calls
                         \o <<"_generate_summary">> \o g.calls,
              prompt |-> g.prompt]

-----------------------------------------------------------------------------
(* handle_command (deploy/app.py) and the process-wide credential.           *)
(* A credential is [ok, val]: Absent is a header or an environment variable  *)
(* that is not there; Cred("") is one that is there and empty.               *)

Absent == [ok |-> FALSE, val |-> ""]

Cred(k) == [ok |-> TRUE, val |-> k]

\* Python's truth value of an Optional[str]
Truthy(c) == c.ok /\ c.val # ""

\* "Missing command"
MissingCommand ==
    <<"M","i","s","s","i","n","g"," ","c","o","m","m","a","n","d">>

\* "No YouTube URL found in command. Please provide a YouTube URL."
NoUrlFound ==
    <<"N","o"," ","Y","o","u","T","u","b","e"," ","U","R","L"," ","f","o","u","n","d"," ","i","n"," ","c","o","m","m","a","n","d","."," ","P","l","e","a","s","e"," ","p","r","o","v","i","d","e"," ","a"," ","Y","o","u","T","u","b","e"," ","U","R","L",".">>

\* "OPENROUTER_API_KEY environment variable not set"
KeyNotSet ==
    <<"O","P","E","N","R","O","U","T","E","R","_","A","P","I","_","K","E","Y"," ","e","n","v","i","r","o","n","m","e","n","t"," ","v","a","r","i","a","b","l","e"," ","n","o","t"," ","s","e","t">>

\* "Unexpected error: "
UnexpectedPrefix ==
    <<"U","n","e","x","p","e","c","t","e","d"," ","e","r","r","o","r",":"," ">>

\* str() of the AttributeError that None.startswith raises
NoneHasNoStartswith ==
    <<"'","N","o","n","e","T","y","p","e","'"," ","o","b","j","e","c","t"," ","h","a","s"," ","n","o"," ","a","t","t","r","i","b","u","t","e"," ","'","s","t","a","r","t","s","w","i","t","h","'">>

\* "Error:"
ErrorMarker == <<"E","r","r","o","r",":">>

\* AgentResponse
Failure(msg) == [success |-> FALSE, result |-> None, error |-> Some(msg)]

Success(text) == [success |-> TRUE, result |-> Some(text), error |-> None]

NoResponse == [success |-> FALSE, result |-> None, error |-> None]

NoRun == [result |-> None, calls |-> <<>>, prompt |-> NoPrompt]

\* the call named name is in the log
Called(calls, name) == \E k \in 1..Len(calls) : calls[k] = name

\* lines 75-84: the response built from what run returned
Respond(result) ==
    IF ~result.ok THEN Failure(UnexpectedPrefix \o NoneHasNoStartswith)
    ELSE IF HasPrefixAt(result.val, 1, ErrorMarker) THEN Failure(result.val)
    ELSE Success(result.val)

\* lines 53-55 with the override applied for any header that is present
OverrideIfPresent(env, header) == IF header.ok THEN header ELSE env

\* lines 53-55: os.environ["OPENROUTER_API_KEY"] after the header is looked at
Override(env, header) == IF Truthy(header) THEN header ELSE env

\* the two services before run is called
NoServices ==
    [listOk |-> FALSE, tracks |-> {}, fetch |-> "raise", direct |-> "raise",
     completion |-> [kind |-> "null", text |-> <<>>]]

\* a request slot: the header and the command received, the position of the
\* handler, the URL found, the credential the summariser read, the answers
\* of the services during run, what run returned and the response
IdleTask ==
    [pc |-> "idle", header |-> Absent, command |-> <<>>, url |-> None,
     key |-> Absent, w |-> NoServices, out |-> NoRun, resp |-> NoResponse]

\* the positions of a handler between its first statement and its return
Running == {"override", "parsed", "built"}

\* handlers started while another one is between two of its statements
LoopFreeAlways(ts, r) == TRUE

\* line 44: handle_command is a coroutine (async def) that never awaits, so
\* the event loop starts a handler only when no other handler of the request
\* slots ts is running
LoopFree(ts, r) == \A q \in DOMAIN ts \ {r} : ts[q].pc \notin Running

\* the handler of slot r returns response
Finish(ts, r, response) ==
    [ts EXCEPT ![r].pc = "done", ![r].resp = response]

\* lines 53-55: the slots once handler r has looked at its header
Started(ts, r) == [ts EXCEPT ![r].pc = "override"]

\* lines 57-69: the slots once handler r has stripped its command and
\* looked for a URL
Parsed(ts, r) ==
    LET cmd == Strip(ts[r].command)
        u   == extract_url(cmd)
    IN  IF cmd = <<>> THEN Finish(ts, r, Failure(MissingCommand))
        ELSE IF ~u.ok \/ u.val = <<>> THEN Finish(ts, r, Failure(NoUrlFound))
        ELSE [ts EXCEPT ![r].pc = "parsed", ![r].url = u]

\* line 72 and __init__ (agent.py lines 19-28): the slots once handler r has
\* built its summariser with the process-wide credential env; without one
\* the ValueError becomes the response
Built(ts, env, r) ==
    IF Truthy(env)
    THEN [ts EXCEPT ![r].pc = "built", ![r].key = env]
    ELSE Finish(ts, r, Failure(KeyNotSet))

\* a POST arrives: FastAPI has parsed the body and the headers
Arrive(r, H, C) ==
    /\ tasks[r].pc = "idle"
    /\ \E h \in H, c \in C :
          tasks' = [tasks EXCEPT ![r] =
                       [IdleTask EXCEPT !.pc = "received", !.header = h,
                                        !.command = c]]
    /\ UNCHANGED <<environ, startup, lastOverride>>
    /\ UNCHANGED <<xvars, tvars, svars>>

\* lines 53-55: the handler starts and looks at X-OpenRouter-Api-Key
ApplyOverride(r) ==
    /\ tasks[r].pc = "received"
    /\ LoopFree(tasks, r)
    /\ environ' = Override(environ, tasks[r].header)
    /\ lastOverride' = IF Truthy(tasks[r].header) THEN tasks[r].header
                       ELSE lastOverride
    /\ tasks' = Started(tasks, r)
    /\ UNCHANGED startup
    /\ UNCHANGED <<xvars, tvars, svars>>

\* lines 57-69: strip the command and look for a URL
ParseRequest(r) ==
    /\ tasks[r].pc = "override"
    /\ tasks' = Parsed(tasks, r)
    /\ UNCHANGED <<environ, startup, lastOverride>>
    /\ UNCHANGED <<xvars, tvars, svars>>

\* line 72: the summariser is built
BuildAgent(r) ==
    /\ tasks[r].pc = "parsed"
    /\ tasks' = Built(tasks, environ, r)
    /\ UNCHANGED <<environ, startup, lastOverride>>
    /\ UNCHANGED <<xvars, tvars, svars>>

\* lines 73-84: run the agent against the world w and build the response
RunAgent(r, W) ==
    /\ tasks[r].pc = "built"
    /\ \E w \in W :
          LET o == run(tasks[r].url.val, w)
          IN  tasks' = [tasks EXCEPT
                  ![r].pc = "done",
                  ![r].out = o,
                  ![r].w = w,
                  ![r].resp = Respond(o.result)]
    /\ UNCHANGED <<environ, startup, lastOverride>>
    /\ UNCHANGED <<xvars, tvars, svars>>

\* the response is sent; the slot takes the next request
Deliver(r) ==
    /\ tasks[r].pc = "done"
    /\ tasks' = [tasks EXCEPT ![r] = IdleTask]
    /\ UNCHANGED <<environ, startup, lastOverride>>
    /\ UNCHANGED <<xvars, tvars, svars>>

-----------------------------------------------------------------------------
(* The specifications.  Each one runs one part of the program; the variables *)
(* of the other parts stay at rest.                                          *)

\* _extract_video_id and extract_url on every input
ExtractInit ==
    /\ input \in Inputs
    /\ command = <<>> /\ url = None /\ video_id = None
    /\ xpc = "start"
    /\ world = NoWorld /\ tr = NoTranscript /\ tpc = "off"
    /\ given = <<>> /\ summary = NoSummary /\ spc = "off"
    /\ environ = Absent /\ startup = Absent /\ lastOverride = Absent
    /\ tasks = <<>>

ExtractNext == ExtractVideoId \/ ParseCommand \/ ExtractVideoIdOfUrl

SpecExtract == ExtractInit /\ [][ExtractNext]_vars

\* _get_transcript against every world
TranscriptInit ==
    /\ world \in TranscriptWorlds
    /\ tr = NoTranscript
    /\ tpc = "start"
    /\ input = <<>> /\ command = <<>> /\ url = None /\ video_id = None
    /\ xpc = "off"
    /\ given = <<>> /\ summary = NoSummary /\ spc = "off"
    /\ environ = Absent /\ startup = Absent /\ lastOverride = Absent
    /\ tasks = <<>>

TranscriptNext == GetTranscript

SpecTranscript == TranscriptInit /\ [][TranscriptNext]_vars

\* _generate_summary on every transcript
SummaryInit ==
    /\ given \in Transcripts
    /\ summary = NoSummary
    /\ spc = "start"
    /\ input = <<>> /\ command = <<>> /\ url = None /\ video_id = None
    /\ xpc = "off"
    /\ world = NoWorld /\ tr = NoTranscript /\ tpc = "off"
    /\ environ = Absent /\ startup = Absent /\ lastOverride = Absent
    /\ tasks = <<>>

SummaryNext == GenerateSummary

SpecSummary == SummaryInit /\ [][SummaryNext]_vars

\* the values of X-OpenRouter-Api-Key: no header, an empty one, two callers'
Headers == {Absent, Cred(""), Cred("sk-alice"), Cred("sk-bob")}

\* OPENROUTER_API_KEY when the process starts: unset, empty or set
Startups == {Absent, Cred(""), Cred("sk-startup")}

\* " ": whitespace only
CmdBlank == <<" ">>

\* "hello"
CmdNoUrl == <<"h","e","l","l","o">>

\* "https://youtu.be/abc": a URL for extract_url, no identifier in it
CmdShortToken == <<"h","t","t","p","s",":","/","/","y","o","u","t","u",".","b","e","/","a","b","c">>

\* "summarize https://www.youtube.com/watch?v=dQw4w9WgXcQ&t=30 now"
CmdWatch ==
    <<"s","u","m","m","a","r","i","z","e"," ","h","t","t","p","s",":","/","/","w","w","w",".","y","o","u","t","u","b","e",".","c","o","m","/","w","a","t","c","h","?","v","=","d","Q","w","4","w","9","W","g","X","c","Q","&","t","=","3","0"," ","n","o","w">>

\* "dQw4w9WgXcQ"
CmdBareId == <<"d","Q","w","4","w","9","W","g","X","c","Q">>

\* one request at a time against every world of the two services
RequestCommands == {CmdBlank, CmdNoUrl, CmdShortToken, CmdWatch, CmdBareId}

RequestWorlds ==
    [listOk     : BOOLEAN,
     tracks     : { {}, {Track("en", FALSE), Track("en", TRUE)},
                    {Track("en-GB", TRUE), Track("de", FALSE)} },
     fetch      : {"raise", "empty", "words", "long"},
     direct     : {"raise", "empty", "words"},
     completion : Completions]

RequestInit ==
    /\ startup \in Startups
    /\ environ = startup
    /\ lastOverride = Absent
    /\ tasks = <<IdleTask>>
    /\ input = <<>> /\ command = <<>> /\ url = None /\ video_id = None
    /\ xpc = "off"
    /\ world = NoWorld /\ tr = NoTranscript /\ tpc = "off"
    /\ given = <<>> /\ summary = NoSummary /\ spc = "off"

RequestNext ==
    \/ \E r \in DOMAIN tasks : Arrive(r, Headers, RequestCommands)
    \/ \E r \in DOMAIN tasks : ApplyOverride(r)
    \/ \E r \in DOMAIN tasks : ParseRequest(r)
    \/ \E r \in DOMAIN tasks : BuildAgent(r)
    \/ \E r \in DOMAIN tasks : RunAgent(r, RequestWorlds)
    \/ \E r \in DOMAIN tasks : Deliver(r)

SpecRequest == RequestInit /\ [][RequestNext]_vars

\* NumTasks requests in flight at once
NumTasks == 2

ServiceCommands == {CmdBlank, CmdNoUrl, CmdWatch}

ServiceWorlds ==
    [listOk     : {TRUE},
     tracks     : { {Track("en", FALSE)} },
     fetch      : {"words"},
     direct     : {"raise"},
     completion : {c \in Completions : c.kind = "text" /\ c.text[1] = "*"}]

Init ==
    /\ startup \in Startups
    /\ environ = startup
    /\ lastOverride = Absent
    /\ tasks = [r \in 1..NumTasks |-> IdleTask]
    /\ input = <<>> /\ command = <<>> /\ url = None /\ video_id = None
    /\ xpc = "off"
    /\ world = NoWorld /\ tr = NoTranscript /\ tpc = "off"
    /\ given = <<>> /\ summary = NoSummary /\ spc = "off"

Next ==
    \/ \E r \in DOMAIN tasks : Arrive(r, Headers, ServiceCommands)
    \/ \E r \in DOMAIN tasks : ApplyOverride(r)
    \/ \E r \in DOMAIN tasks : ParseRequest(r)
    \/ \E r \in DOMAIN tasks : BuildAgent(r)
    \/ \E r \in DOMAIN tasks : RunAgent(r, ServiceWorlds)
    \/ \E r \in DOMAIN tasks : Deliver(r)

Spec == Init /\ [][Next]_vars

-----------------------------------------------------------------------------
(* Claims about _extract_video_id and extract_url (SpecExtract) *)

IsVideoReference(s) == Len(s) = IdLen /\ \A k \in 1..Len(s) : s[k] \in IdChars

\* C2: every value _extract_video_id returns other than None is a string of
\* exactly 11 characters of [A-Za-z0-9_-], the query-string fallback included.
C2_ReturnedIdIsVideoReference ==
    (xpc \in {"extracted", "chained"} /\ video_id.ok)
        => IsVideoReference(video_id.val)

\* the positions of the input where one of the prefixes is followed by 11
\* identifier characters, and the 11 characters at the leftmost of them
C6_Hits(prefixes) ==
    {i \in 1..Len(input) :
        \E p \in prefixes :
            /\ i + Len(p) + IdLen - 1 <= Len(input)
            /\ SubSeq(input, i, i + Len(p) - 1) = p
            /\ IsVideoReference(SubSeq(input, i + Len(p), i + Len(p) + IdLen - 1))}

C6_IdAt(prefixes, i) ==
    LET p == CHOOSE q \in prefixes :
                 /\ i + Len(q) + IdLen - 1 <= Len(input)
                 /\ SubSeq(input, i, i + Len(q) - 1) = q
    IN  SubSeq(input, i + Len(p), i + Len(p) + IdLen - 1)

C6_HasQueryV ==
    \E k \in 1..Len(parse_qs(UrlQuery(input))) :
        parse_qs(UrlQuery(input))[k].name = <<"v">>

\* C6: _extract_video_id returns the group of the first of the three patterns
\* that matches: (1) v=, /v/ or youtu.be/ and 11 identifier characters,
\* (2) embed/ and 11 identifier characters, (3) the whole input is exactly 11
\* identifier characters; with no pattern matching and no v query parameter it
\* returns None.
C6_FirstPatternWins ==
    xpc = "extracted" =>
        LET h1 == C6_Hits(IdPrefixes)
            h2 == C6_Hits(EmbedPrefixes)
        IN  IF h1 # {} THEN video_id = Some(C6_IdAt(IdPrefixes, Min(h1)))
            ELSE IF h2 # {} THEN video_id = Some(C6_IdAt(EmbedPrefixes, Min(h2)))
            ELSE IF IsVideoReference(input) THEN video_id = Some(input)
            ELSE ~C6_HasQueryV => video_id = None

\* the token after watch?v=, youtu.be/ or embed/ in a URL extract_url returned
C10_Token(u) ==
    LET marks == { <<"w","a","t","c","h","?","v","=">>, ShortHead,
                   <<"e","m","b","e","d","/">> }
        hits  == {im \in (1..Len(u)) \X marks : HasPrefixAt(u, im[1], im[2])}
        from  == Min({im[1] + Len(im[2]) : im \in hits})
    IN  SubSeq(u, from, RunEndIn(u, from, IdChars))

\* C10: for every command for which extract_url returns a URL,
\* _extract_video_id of that URL returns an identifier, and it is the token
\* that follows watch?v=, youtu.be/ or embed/ in the URL.
C10_ParserAndExtractorAgree ==
    xpc = "chained" => video_id = Some(C10_Token(url.val))

-----------------------------------------------------------------------------
(* Claims about _get_transcript (SpecTranscript) *)

\* how many times the call named name is in the log
RECURSIVE Count(_, _)
Count(calls, name) ==
    IF calls = <<>> THEN 0
    ELSE (IF Head(calls) = name THEN 1 ELSE 0) + Count(Tail(calls), name)

English == {"en", "en-US", "en-GB"}

\* C4 as stated: the direct fetch get_transcript(video_id) is attempted only
\* when listing the tracks raised, never when the listing succeeded; it is
\* attempted at most once, and if it raises too the result is None.
C4_DirectFetchOnlyAfterListingRaised ==
    tpc = "returned" =>
        /\ Count(tr.calls, "get_transcript") = (IF world.listOk THEN 0 ELSE 1)
        /\ (~world.listOk /\ world.direct = "raise") => tr.result = None

C4_SomethingRaised ==
    \/ ~world.listOk
    \/ \A trk \in world.tracks : trk.lang \notin English
    \/ world.fetch = "raise"

\* C4 amended: the direct fetch is attempted exactly when something in the
\* outer try raised: the listing, the last of the three lookups (no English
\* track is listed) or the fetch of the selected track.  When all of them
\* succeeded it is not made, also when zero entries were fetched (the result
\* is then the empty string).  It is attempted at most once, and if it
\* raises too the result is None.
C4_DirectFetchAfterAnyFailure ==
    tpc = "returned" =>
        /\ Count(tr.calls, "get_transcript")
              = (IF C4_SomethingRaised THEN 1 ELSE 0)
        /\ (C4_SomethingRaised /\ world.direct = "raise") => tr.result = None
        /\ (~C4_SomethingRaised /\ world.fetch = "empty") => tr.result = Some(<<>>)
        /\ ~C4_SomethingRaised => tr.result.ok

\* the listing succeeded, no English track is listed, and the direct fetch
\* was made and returned the default track's text
C4_Witness ==
    /\ tpc = "returned"
    /\ world.listOk
    /\ world.tracks = {Track("de", FALSE)}
    /\ Count(tr.calls, "get_transcript") = 1
    /\ tr.result.ok /\ tr.result.val # <<>>

IsLookup(name) ==
    name \in {"find_manually_created_transcript", "find_generated_transcript",
              "find_transcript"}

\* the text of a track's entries joined by single spaces, per form
C5_JoinedText(trk, form) ==
    CASE form = "empty" -> <<>>
      [] form = "words" ->
            TextCat(LangText(trk.lang),
                    TextCat(<<Rep(" ", 1)>>, KindText(trk.generated)))
      [] OTHER ->
            TextCat(<<Rep("a", max_chars), Rep(" ", 1)>>, LangText(trk.lang))

\* C5: when the listing succeeds the track fetched is the manually created
\* English track if there is one, else the auto-generated English track if
\* there is one, else a track in {en, en-US, en-GB}; a lower-priority lookup
\* is made only after the higher-priority one raised; the text returned is
\* the selected track's entries' text joined by single spaces in order.
C5_TrackPriority ==
    (tpc = "returned" /\ world.listOk) =>
        LET manual  == Track("en", FALSE) \in world.tracks
            auto    == Track("en", TRUE) \in world.tracks
            english == {trk \in world.tracks : trk.lang \in English}
            lookups == SelectSeq(tr.calls, IsLookup)
        IN  /\ manual =>
                /\ tr.selected = Some(Track("en", FALSE))
                /\ lookups = <<"find_manually_created_transcript">>
            /\ (~manual /\ auto) =>
                /\ tr.selected = Some(Track("en", TRUE))
                /\ lookups = <<"find_manually_created_transcript",
                               "find_generated_transcript">>
            /\ (~manual /\ ~auto) =>
                /\ lookups = <<"find_manually_created_transcript",
                               "find_generated_transcript", "find_transcript">>
                /\ IF english = {} THEN ~tr.selected.ok
                   ELSE tr.selected.ok /\ tr.selected.val \in english
            /\ Count(tr.calls, "fetch") = (IF tr.selected.ok THEN 1 ELSE 0)
            /\ (tr.selected.ok /\ world.fetch # "raise") =>
                tr.result = Some(C5_JoinedText(tr.selected.val, world.fetch))

\* both English tracks are listed and the manual one's text came back
C5_Witness ==
    /\ tpc = "returned"
    /\ world.listOk
    /\ {Track("en", FALSE), Track("en", TRUE)} \subseteq world.tracks
    /\ world.fetch = "words"
    /\ tr.selected = Some(Track("en", FALSE))
    /\ tr.result = Some(TextOf(<<"e","n"," ","m","a","n","u","a","l">>))

-----------------------------------------------------------------------------
(* Claims about _generate_summary (SpecSummary) *)

\* p is a prefix of t (both run-length encoded)
TextIsPrefix(p, t) ==
    \/ p = <<>>
    \/ /\ Len(p) <= Len(t)
       /\ \A k \in 1..(Len(p) - 1) : p[k] = t[k]
       /\ p[Len(p)].ch = t[Len(p)].ch
       /\ p[Len(p)].n <= t[Len(p)].n

\* C7: the transcript placed in the user prompt is the input unchanged when
\* it has at most 100,000 characters, and its first 100,000 characters
\* followed by "\n\n[Transcript truncated...]" when it has 100,001 or more;
\* the text before the marker never exceeds 100,000 characters.
C7_TruncationAtLimit ==
    spc = "returned" =>
        LET sent == summary.prompt.transcript
        IN  IF TextLen(given) <= 100000
            THEN sent = given
            ELSE /\ TextLen(sent) = 100000 + TextLen(TruncationMarker)
                 /\ TextIsPrefix(TextTake(sent, 100000), given)
                 /\ TextDrop(sent, 100000) = TruncationMarker

\* a transcript of 100,001 characters was cut to 100,000 and the marker
C7_Witness ==
    /\ spc = "returned"
    /\ TextLen(given) = 100001
    /\ TextLen(summary.prompt.transcript) = 100027
    /\ summary.prompt.transcript # given

-----------------------------------------------------------------------------
(* Claims about run and handle_command, one request at a time (SpecRequest) *)

\* run was called for the request in slot r and has returned
RunReturned(r) == tasks[r].pc = "done" /\ tasks[r].out.calls # <<>>

IsServiceCall(name) ==
    name \in {"list_transcripts", "find_manually_created_transcript",
              "find_generated_transcript", "find_transcript", "fetch",
              "get_transcript", "chat.completions.create"}

IsTranscriptCall(name) ==
    IsServiceCall(name) /\ name # "chat.completions.create"

\* the index of the first entry named name in the log, or 0
IndexOf(calls, name) ==
    LET at == {k \in 1..Len(calls) : calls[k] = name}
    IN  IF at = {} THEN 0 ELSE Min(at)

\* what the completion service's answer makes _generate_summary return
C3_Generated(c) ==
    CASE c.kind = "text"  -> Some(c.text)
      [] c.kind = "raise" -> Some(ErrGeneratingPrefix \o c.text)
      [] OTHER            -> None

\* C3: run goes extract -> fetch -> generate, short-circuits and retries
\* nothing: without an identifier it returns the 'could not extract' error
\* and contacts no service; with no transcript or an empty one it returns
\* the 'could not fetch' error and makes no completion call; otherwise it
\* makes the completion call exactly once and returns its result unchanged.
C3_StagesInOrder ==
    \A r \in DOMAIN tasks : RunReturned(r) =>
        LET calls == tasks[r].out.calls
            id    == extract_video_id(tasks[r].url.val)
            text  == get_transcript(tasks[r].w).result
            e     == IndexOf(calls, "_extract_video_id")
            f     == IndexOf(calls, "_get_transcript")
            g     == IndexOf(calls, "_generate_summary")
        IN  /\ e = 1
            /\ \A s \in {"_extract_video_id", "_get_transcript",
                         "_generate_summary", "chat.completions.create"} :
                   Count(calls, s) <= 1
            /\ \A k \in 1..Len(calls) :
                   /\ IsTranscriptCall(calls[k]) =>
                          f > 0 /\ f < k /\ (g > 0 => k < g)
                   /\ calls[k] = "chat.completions.create" => g > 0 /\ g < k
            /\ g > 0 => f > 0 /\ f < g
            /\ IF ~id.ok
               THEN /\ tasks[r].out.result = Some(ErrExtract)
                    /\ \A k \in 1..Len(calls) : ~IsServiceCall(calls[k])
               ELSE IF ~text.ok \/ text.val = <<>>
               THEN /\ tasks[r].out.result = Some(ErrFetch)
                    /\ f = 2
                    /\ Count(calls, "chat.completions.create") = 0
               ELSE /\ Count(calls, "chat.completions.create") = 1
                    /\ calls[Len(calls)] = "chat.completions.create"
                    /\ tasks[r].out.result = C3_Generated(tasks[r].w.completion)

\* a transcript was fetched and is empty: run stopped before the summary
C3_Witness ==
    \E r \in DOMAIN tasks :
        /\ RunReturned(r)
        /\ get_transcript(tasks[r].w).result = Some(<<>>)
        /\ Called(tasks[r].out.calls, "fetch")
        /\ tasks[r].out.result = Some(ErrFetch)

\* C1: when the pipeline ends in an input error (no identifier), a retrieval
\* error (no transcript) or a generation error (the completion call raised),
\* the response has success = false and carries the reason in error; success
\* = true is returned only when the completion call returned text.
C1_ErrorsGiveFailureResponse ==
    \A r \in DOMAIN tasks : RunReturned(r) =>
        LET id       == extract_video_id(tasks[r].url.val)
            text     == get_transcript(tasks[r].w).result
            called   == Called(tasks[r].out.calls, "chat.completions.create")
            inputErr == ~id.ok
            fetchErr == id.ok /\ (~text.ok \/ text.val = <<>>)
            genErr   == called /\ tasks[r].w.completion.kind = "raise"
        IN  /\ (inputErr \/ fetchErr \/ genErr) =>
                  ~tasks[r].resp.success /\ tasks[r].resp.error.ok
            /\ tasks[r].resp.success =>
                  called /\ tasks[r].w.completion.kind = "text"

-----------------------------------------------------------------------------
(* Claims about the process-wide credential with requests in flight (Spec) *)

\* the process between two statements of the handlers: the request slots and
\* OPENROUTER_API_KEY
C8_Here == [tasks |-> tasks, environ |-> environ]

\* the handler of slot r can take its next step from s, up to the point where
\* its summariser is built
C8_CanStep(s, r) ==
    \/ s.tasks[r].pc = "received" /\ LoopFree(s.tasks, r)
    \/ s.tasks[r].pc \in {"override", "parsed"}

\* s after that step
C8_Step(s, r) ==
    IF s.tasks[r].pc = "received"
    THEN [tasks   |-> Started(s.tasks, r),
          environ |-> Override(s.environ, s.tasks[r].header)]
    ELSE IF s.tasks[r].pc = "override"
    THEN [tasks |-> Parsed(s.tasks, r), environ |-> s.environ]
    ELSE [tasks |-> Built(s.tasks, s.environ, r), environ |-> s.environ]

\* everything the handlers of the slots R reach from the states S, in any
\* order of their steps that the event loop admits
RECURSIVE C8_Interleavings(_, _)
C8_Interleavings(S, R) ==
    LET more == S \cup {C8_Step(s, r) : <<s, r>> \in
                            {sr \in S \X R : C8_CanStep(sr[1], sr[2])}}
    IN  IF more = S THEN S ELSE C8_Interleavings(more, R)

\* the command of slot r holds a URL, so its handler goes on to build a
\* summariser
C8_HasUrl(r) ==
    LET u == extract_url(Strip(tasks[r].command))
    IN  u.ok /\ u.val # <<>>

\* C8 as stated: whenever two requests that carry different override
\* credentials (and a URL each) are in flight together, their handlers not
\* yet started, there is an interleaving of the two handle_command
\* executions in which the summariser built for one of them has read the
\* credential written by the other.
C8_RaceReachable ==
    \A r, q \in DOMAIN tasks :
        ( /\ r # q
          /\ tasks[r].pc = "received" /\ tasks[q].pc = "received"
          /\ Truthy(tasks[r].header) /\ Truthy(tasks[q].header)
          /\ tasks[r].header # tasks[q].header
          /\ C8_HasUrl(r) /\ C8_HasUrl(q) )
        => \E s \in C8_Interleavings({C8_Here}, {r, q}) :
              \/ s.tasks[r].key = tasks[q].header
              \/ s.tasks[q].key = tasks[r].header

\* C8 amended: handle_command never awaits, so its executions do not
\* interleave on the event loop, and the summariser built for a request that
\* carries a non-empty override always reads that request's own credential,
\* whatever other requests are in flight.
C8_OwnCredentialRead ==
    \A r \in DOMAIN tasks :
        (tasks[r].key.ok /\ Truthy(tasks[r].header))
            => tasks[r].key = tasks[r].header

\* two requests with different overrides in flight: one has built its
\* summariser and not returned yet, the other has arrived
C8_Witness ==
    \E r, q \in DOMAIN tasks :
        /\ tasks[r].pc = "built" /\ tasks[q].pc = "received"
        /\ tasks[r].header = Cred("sk-alice") /\ tasks[q].header = Cred("sk-bob")
        /\ tasks[r].key = Cred("sk-alice")

\* C9: OPENROUTER_API_KEY is the non-empty override of the most recent
\* request handled that carried one, or the startup value if none did; a
\* request without the header leaves it as it is and its summariser reads
\* that value; a request with the header overwrites it even when it is then
\* rejected before a summariser is built.
C9_CredentialIsLastOverride ==
    /\ environ = (IF lastOverride.ok THEN lastOverride ELSE startup)
    /\ \A r \in DOMAIN tasks :
          /\ tasks[r].pc = "built" => tasks[r].key = environ
          /\ (tasks[r].pc \in Running /\ Truthy(tasks[r].header))
                => environ = tasks[r].header

\* a request with an override was rejected with 'Missing command', and a
\* request without the header then built its summariser with that override
\* rather than with the startup credential
C9_Witness ==
    \E r, q \in DOMAIN tasks :
        /\ startup = Cred("sk-startup")
        /\ tasks[r].pc = "done"
        /\ tasks[r].header = Cred("sk-alice")
        /\ tasks[r].resp = Failure(MissingCommand)
        /\ tasks[q].pc = "built"
        /\ ~tasks[q].header.ok
        /\ tasks[q].key = Cred("sk-alice")
        /\ environ = Cred("sk-alice")

=============================================================================
